---------------------------- MODULE Spec2Model ----------------------------
(***************************************************************************)
(* A model of get_cc_hist.py, the converter of Claude Code JSONL session   *)
(* logs to markdown documents.                                             *)
(*                                                                         *)
(* Text.  A Python str is modelled as a sequence of characters.  An ASCII  *)
(* character is the one-character TLA+ string; every other character is    *)
(* the string naming its code point ("U+001B"), and so is the grave        *)
(* accent ("U+0060").  The source file's                                   *)
(* non-ASCII literals are kept code point by code point, as Python reads   *)
(* them.                                                                   *)
(*                                                                         *)
(* JSON.  A value json.loads returns is a record [k, s, n, items]: k the   *)
(* kind ("null", "num", "str", "list", "dict"), s the characters of a      *)
(* string, n the integer of a number, items the elements of a list or the  *)
(* [key, val] members of a dict in file order.  Booleans and floats are    *)
(* not modelled.                                                           *)
(*                                                                         *)
(* Exceptions.  A function that can raise is modelled by two operators:    *)
(* F_raises(args), whether the call raises, and F(args), its value when it *)
(* does not.                                                               *)
(***************************************************************************)
EXTENDS Integers, Sequences, FiniteSets, TLC

VARIABLES
    files,            \* main: jsonl_files, the discovered session files
    output_dir,       \* the files of the output folder: a set of [name, content]
    run,              \* which run of the program this is (1, 2, ...)
    pc,               \* main's position: "start", "loop", "done"
    idx,              \* main's loop index into jsonl_files (files before idx are done)
    processed_count,  \* main: processed_count
    skipped_count,    \* main: skipped_count
    results,          \* what process_jsonl_file returned for each file of this run
    writes,           \* every file opened for writing so far: [name, content, run, file]
    history,          \* the counts of the runs that completed
    tool_result,      \* harness of process_tool_result_content: its argument
    rendered,         \* harness of process_tool_result_content: its return value
    tpc               \* harness position: "call", "returned", "idle"

vars == <<files, output_dir, run, pc, idx, processed_count, skipped_count,
          results, writes, history, tool_result, rendered, tpc>>

batch_vars == <<files, output_dir, run, pc, idx, processed_count, skipped_count,
                results, writes, history>>

harness_vars == <<tool_result, rendered, tpc>>

----------------------------------------------------------------------------
(* Bounds of the model. *)

\* The most session files a batch discovers.
MaxFiles == 2

\* The most lines of a session file, where all line sequences are drawn.
MaxLines == 2

\* The most runs of the program over the same inputs and output folder.
MaxRuns == 3

\* Payload lengths are drawn within this distance of 0 and of the truncation limit.
Slack == 2

----------------------------------------------------------------------------
(* Characters and Python's str operations. *)

Chars(s) == [i \in 1..Len(s) |-> SubSeq(s, i, i)]

ESC == "U+001B"

\* The grave accent, which a TLA+ string cannot hold.
Backtick == "U+0060"

Letters ==
    {"a","b","c","d","e","f","g","h","i","j","k","l","m","n","o","p","q","r","s",
     "t","u","v","w","x","y","z","A","B","C","D","E","F","G","H","I","J","K","L",
     "M","N","O","P","Q","R","S","T","U","V","W","X","Y","Z"}

Digits == {"0","1","2","3","4","5","6","7","8","9"}

\* The characters str.strip(), str.split() and the regex class \s take as whitespace.
Whitespace == {" ", "\t", "\n", "\r", "\f"}

Min2(a, b) == IF a <= b THEN a ELSE b

SetMin(S) == CHOOSE x \in S : \A y \in S : x <= y

\* s[lo:hi] and s[lo:], lo and hi counted from 0 as in Python
PySlice(s, lo, hi) == SubSeq(s, lo + 1, Min2(hi, Len(s)))

PyFrom(s, lo) == SubSeq(s, lo + 1, Len(s))

\* str.startswith
StartsWith(s, p) == Len(p) <= Len(s) /\ SubSeq(s, 1, Len(p)) = p

\* sub occurs in s at offset i (from 0)
MatchAt(s, sub, i) ==
    /\ i + Len(sub) <= Len(s)
    /\ \A j \in 1..Len(sub) : s[i + j] = sub[j]

\* str.find(sub, start): the lowest offset (from 0) at or after start, or -1
Find(s, sub, start) ==
    LET M == {i \in start..(Len(s) - Len(sub)) : MatchAt(s, sub, i)}
    IN  IF M = {} THEN -1 ELSE SetMin(M)

\* sub in s
Contains(s, sub) == Find(s, sub, 0) # -1

\* The first index (from 1) at or after from whose character is not in class;
\* Len(s) + 1 when there is none.
FirstNotIn(s, from, class) ==
    CHOOSE k \in from..(Len(s) + 1) :
        /\ k = Len(s) + 1 \/ s[k] \notin class
        /\ \A j \in from..(k - 1) : s[j] \in class

\* The last index (from 1) whose character is not in class; 0 when there is none.
LastNotIn(s, class) ==
    CHOOSE k \in 0..Len(s) :
        /\ k = 0 \/ s[k] \notin class
        /\ \A j \in (k + 1)..Len(s) : s[j] \in class

\* str.strip()
StripBetween(s, a, b) == IF a > Len(s) THEN <<>> ELSE SubSeq(s, a, b)

Strip(s) == StripBetween(s, FirstNotIn(s, 1, Whitespace), LastNotIn(s, Whitespace))

\* sep.join(parts), by halves (a long text has many lines)
RECURSIVE JoinRange(_, _, _, _)
JoinRange(parts, sep, lo, hi) ==
    IF lo > hi THEN <<>>
    ELSE IF lo = hi THEN parts[lo]
    ELSE LET mid == (lo + hi) \div 2
         IN  JoinRange(parts, sep, lo, mid) \o sep \o JoinRange(parts, sep, mid + 1, hi)

Join(parts, sep) == JoinRange(parts, sep, 1, Len(parts))

\* The indexes (from 1) of the character c in s, in order
IndexesOf(s, c) ==
    LET IsSep(i) == s[i] = c
    IN  SelectSeq([i \in 1..Len(s) |-> i], IsSep)

\* The parts of s between the indexes at
SplitAt(s, at) ==
    [k \in 1..(Len(at) + 1) |->
        SubSeq(s, IF k = 1 THEN 1 ELSE at[k - 1] + 1,
                  IF k = Len(at) + 1 THEN Len(s) ELSE at[k] - 1)]

\* s.split(c) for a one-character separator
SplitChar(s, c) == SplitAt(s, IndexesOf(s, c))

\* s.split(sep) for a separator of several characters: left to right
RECURSIVE SplitFrom(_, _, _)
SplitFound(s, sep, start, i) ==
    IF i = -1 THEN <<PyFrom(s, start)>>
    ELSE <<PySlice(s, start, i)>> \o SplitFrom(s, sep, i + Len(sep))

SplitFrom(s, sep, start) == SplitFound(s, sep, start, Find(s, sep, start))

Split(s, sep) == SplitFrom(s, sep, 0)

\* s.split(): the maximal runs of non-whitespace characters
RECURSIVE WordsFrom(_, _)
WordBetween(s, a, b) ==
    IF a > Len(s) THEN <<>> ELSE <<SubSeq(s, a, b - 1)>> \o WordsFrom(s, b)

WordAt(s, a) == WordBetween(s, a, FirstNotIn(s, a, {s[i] : i \in 1..Len(s)} \ Whitespace))

WordsFrom(s, from) == WordAt(s, FirstNotIn(s, from, Whitespace))

Words(s) == WordsFrom(s, 1)

\* s with the characters of the spans (sets of <<first, last>>, from 1) removed
KeepAt(s, at) == [j \in 1..Len(at) |-> s[at[j]]]

RemoveSpans(s, spans) ==
    LET Kept(i) == \A sp \in spans : i < sp[1] \/ i > sp[2]
    IN  KeepAt(s, SelectSeq([i \in 1..Len(s) |-> i], Kept))

----------------------------------------------------------------------------
(* UTILITY FUNCTIONS and clean_tool_output *)

\* The characters re.sub replaces in sanitize_filename: [<>:"/\\|?*]
UnsafeChars == {"<", ">", ":", "\"", "/", "\\", "|", "?", "*"}

\* The longest filename sanitize_filename leaves whole.
MaxFilenameLen == 100

\* The characters kept of a longer one, before the "...".
KeptFilenameLen == 97

\* The length limit of sanitize_filename
LimitLength(filename) ==
    IF Len(filename) > MaxFilenameLen
    THEN PySlice(filename, 0, KeptFilenameLen) \o Chars("...")
    ELSE filename

\* re.sub(r'[<>:"/\\|?*]', "_", filename)
ReplaceUnsafe(filename) ==
    [i \in 1..Len(filename) |-> IF filename[i] \in UnsafeChars THEN "_" ELSE filename[i]]

sanitize_filename(filename) == LimitLength(ReplaceUnsafe(filename))

\* The source's arrow literal of the line-number pattern, as its file spells it.
Arrow == <<"U+201A", "U+00DC", "U+00ED">>

\* [0-9;]
CsiParams == Digits \cup {";"}

\* The matches of \x1b\[[0-9;]*[a-zA-Z] in a line.  A match starts at an ESC and
\* holds no other: the matches re.sub finds left to right are all of them.
CsiSpans(line) ==
    {<<i, FirstNotIn(line, i + 2, CsiParams)>> :
        i \in {i \in 1..(Len(line) - 2) :
                /\ line[i] = ESC
                /\ line[i + 1] = "["
                /\ LET e == FirstNotIn(line, i + 2, CsiParams)
                   IN  e <= Len(line) /\ line[e] \in Letters}}

\* The matches of \[[\d;]*m in a line; likewise none holds another's "[".
SgrSpans(line) ==
    {<<i, FirstNotIn(line, i + 1, CsiParams)>> :
        i \in {i \in 1..(Len(line) - 1) :
                /\ line[i] = "["
                /\ LET e == FirstNotIn(line, i + 1, CsiParams)
                   IN  e <= Len(line) /\ line[e] = "m"}}

\* re.sub(r"^\s*\d+<arrow>", "", line): the whitespace from a, the digits to b
DropLineNumber(line, a, b) ==
    IF b > a /\ MatchAt(line, Arrow, b - 1)
    THEN PyFrom(line, b - 1 + Len(Arrow))
    ELSE line

DropDigitsFrom(line, a) == DropLineNumber(line, a, FirstNotIn(line, a, Digits))

RemoveLineNumber(line) == DropDigitsFrom(line, FirstNotIn(line, 1, Whitespace))

\* re.sub(r"\x1b\[[0-9;]*[a-zA-Z]", "", line)
RemoveCsi(line) == RemoveSpans(line, CsiSpans(line))

\* re.sub(r"\[[\d;]*m", "", line)
RemoveSgr(line) == RemoveSpans(line, SgrSpans(line))

\* if line.startswith("\t"): line = line[1:]
StripTab(line) == IF StartsWith(line, <<"\t">>) THEN PyFrom(line, 1) ELSE line

\* The body of clean_tool_output's loop, for one line.
CleanLine(line) == StripTab(RemoveLineNumber(RemoveSgr(RemoveCsi(line))))

CleanLines(lines) == Join([k \in 1..Len(lines) |-> CleanLine(lines[k])], <<"\n">>)

clean_tool_output(output) ==
    IF output = <<>> THEN output ELSE CleanLines(SplitChar(output, "\n"))

----------------------------------------------------------------------------
(* JSON values, json.dumps, str() and repr() *)

JNull == [k |-> "null", s |-> <<>>, n |-> 0, items |-> <<>>]

JNum(n) == [k |-> "num", s |-> <<>>, n |-> n, items |-> <<>>]

JStr(s) == [k |-> "str", s |-> s, n |-> 0, items |-> <<>>]

JList(items) == [k |-> "list", s |-> <<>>, n |-> 0, items |-> items]

\* members: a sequence of [key, val], the keys distinct
JDict(members) == [k |-> "dict", s |-> <<>>, n |-> 0, items |-> members]

Member(key, val) == [key |-> Chars(key), val |-> val]

\* Python's truth value of a JSON value
Truthy(v) ==
    CASE v.k = "null" -> FALSE
      [] v.k = "num" -> v.n # 0
      [] v.k = "str" -> v.s # <<>>
      [] OTHER -> v.items # <<>>

HasKey(d, key) == \E i \in 1..Len(d.items) : d.items[i].key = Chars(key)

\* d.get(key, default) of a dict d
Get(d, key, default) ==
    IF HasKey(d, key)
    THEN d.items[CHOOSE i \in 1..Len(d.items) : d.items[i].key = Chars(key)].val
    ELSE default

DigitChar(d) == <<"0","1","2","3","4","5","6","7","8","9">>[d + 1]

RECURSIVE NatToChars(_)
NatToChars(n) ==
    IF n < 10 THEN <<DigitChar(n)>> ELSE NatToChars(n \div 10) \o <<DigitChar(n % 10)>>

IntToChars(n) == IF n < 0 THEN <<"-">> \o NatToChars(-n) ELSE NatToChars(n)

\* How json.dumps (ensure_ascii) writes one character of a string.
JsonEscape(c) ==
    CASE c = "\"" -> Chars("\\\"")
      [] c = "\\" -> Chars("\\\\")
      [] c = "\n" -> Chars("\\n")
      [] c = "\t" -> Chars("\\t")
      [] c = "\r" -> Chars("\\r")
      [] c = "\f" -> Chars("\\f")
      [] c = Backtick -> <<c>>
      [] Len(c) > 1 -> <<"\\", "u">> \o Chars(SubSeq(c, 3, 6))
      [] OTHER -> <<c>>

\* json.dumps writes the hexadecimal digits of an escape in lower case.
LowerHex(c) ==
    CASE c = "A" -> "a" [] c = "B" -> "b" [] c = "C" -> "c"
      [] c = "D" -> "d" [] c = "E" -> "e" [] c = "F" -> "f" [] OTHER -> c

JsonString(s) ==
    LET esc == [i \in 1..Len(s) |->
                   IF Len(s[i]) > 1 /\ s[i] # Backtick
                   THEN [j \in 1..6 |-> LowerHex(JsonEscape(s[i])[j])]
                   ELSE JsonEscape(s[i])]
    IN  <<"\"">> \o Join(esc, <<>>) \o <<"\"">>

Spaces(n) == [i \in 1..n |-> " "]

\* json.dumps(v, indent=indent), at nesting depth level
RECURSIVE JsonDumpsAt(_, _, _)
JsonDumpsAt(v, indent, level) ==
    LET inner == <<"\n">> \o Spaces(indent * (level + 1))
        outer == <<"\n">> \o Spaces(indent * level)
    IN  CASE v.k = "null" -> Chars("null")
          [] v.k = "num" -> IntToChars(v.n)
          [] v.k = "str" -> JsonString(v.s)
          [] v.k = "list" ->
                IF v.items = <<>> THEN Chars("[]")
                ELSE <<"[">> \o inner
                     \o Join([i \in 1..Len(v.items) |->
                                 JsonDumpsAt(v.items[i], indent, level + 1)],
                             <<",">> \o inner)
                     \o outer \o <<"]">>
          [] OTHER ->
                IF v.items = <<>> THEN Chars("{}")
                ELSE <<"{">> \o inner
                     \o Join([i \in 1..Len(v.items) |->
                                 JsonString(v.items[i].key) \o Chars(": ")
                                 \o JsonDumpsAt(v.items[i].val, indent, level + 1)],
                             <<",">> \o inner)
                     \o outer \o <<"}">>

JsonDumps(v, indent) == JsonDumpsAt(v, indent, 0)

\* How repr() writes one character of a str quoted by q.  U+F8FF is a
\* private-use character, which repr escapes; the other named characters of
\* the model print as they are.
ReprEscape(c, q) ==
    CASE c = "\\" -> Chars("\\\\")
      [] c = q -> <<"\\", q>>
      [] c = "\n" -> Chars("\\n")
      [] c = "\t" -> Chars("\\t")
      [] c = "\r" -> Chars("\\r")
      [] c = "\f" -> Chars("\\x0c")
      [] c = ESC -> Chars("\\x1b")
      [] c = "U+F8FF" -> Chars("\\uf8ff")
      [] OTHER -> <<c>>

\* repr() of a str: in single quotes unless it holds one and no double quote
ReprString(s) ==
    LET has(c) == \E i \in 1..Len(s) : s[i] = c
        q == IF has("'") /\ ~has("\"") THEN "\"" ELSE "'"
    IN  <<q>> \o Join([i \in 1..Len(s) |-> ReprEscape(s[i], q)], <<>>) \o <<q>>

RECURSIVE PyRepr(_)
PyRepr(v) ==
    CASE v.k = "null" -> Chars("None")
      [] v.k = "num" -> IntToChars(v.n)
      [] v.k = "str" -> ReprString(v.s)
      [] v.k = "list" ->
            <<"[">> \o Join([i \in 1..Len(v.items) |-> PyRepr(v.items[i])], Chars(", "))
            \o <<"]">>
      [] OTHER ->
            <<"{">> \o Join([i \in 1..Len(v.items) |->
                               ReprString(v.items[i].key) \o Chars(": ")
                               \o PyRepr(v.items[i].val)], Chars(", "))
            \o <<"}">>

\* str(v), and what an f-string writes for {v}
PyStr(v) == IF v.k = "str" THEN v.s ELSE PyRepr(v)

----------------------------------------------------------------------------
(* CONTENT PROCESSORS *)

\* The longest cleaned tool result process_tool_result_content leaves whole.
TruncLimit == 2000

TruncMarker == Chars("\n... (truncated)")

\* The label's first characters, as the source file spells them.
Wrench == <<"U+F8FF", "U+00FC", "U+00EE", "U+00DF">>

ToolResultLabel == Wrench \o Chars("Tool Result:")

ToolUsedLabel == Chars("**Tool Used:**")

Fence == <<Backtick, Backtick, Backtick>>

JsonFence == Fence \o Chars("json")

\* A truncation that cuts a result of exactly the limit's length too.
TruncateAtLimit(cleaned_result) ==
    IF Len(cleaned_result) >= TruncLimit
    THEN PySlice(cleaned_result, 0, TruncLimit) \o TruncMarker
    ELSE cleaned_result

\* The truncation of a cleaned tool result
Truncate(cleaned_result) ==
    IF Len(cleaned_result) > TruncLimit
    THEN PySlice(cleaned_result, 0, TruncLimit) \o TruncMarker
    ELSE cleaned_result

process_tool_result_content(tool_result_arg) ==
    IF tool_result_arg.k = "str"
    THEN ToolResultLabel \o <<"\n">> \o Fence \o <<"\n">>
         \o Truncate(clean_tool_output(tool_result_arg.s)) \o <<"\n">> \o Fence
    ELSE ToolResultLabel \o <<"\n">> \o JsonFence \o <<"\n">>
         \o JsonDumps(tool_result_arg, 2) \o <<"\n">> \o Fence

\* The length of str(tool_input) from which the JSON is indented by 1, not 2.
IndentThreshold == 200

\* "\n".join(line.strip() for line in lines if line.strip())
StrippedLines(lines) ==
    LET NonEmpty(l) == l # <<>>
    IN  Join(SelectSeq([i \in 1..Len(lines) |-> Strip(lines[i])], NonEmpty), <<"\n">>)

process_text_content(text_content) ==
    IF text_content.k # "str" THEN <<>>
    ELSE StrippedLines(SplitChar(clean_tool_output(text_content.s), "\n"))

\* The fenced JSON of a tool input that is true, with the blank line before it
ToolInputBlock(tool_input) ==
    IF Truthy(tool_input)
    THEN Chars("\n\n") \o JsonFence \o <<"\n">>
         \o JsonDumps(tool_input,
                      IF Len(PyStr(tool_input)) < IndentThreshold THEN 2 ELSE 1)
         \o <<"\n">> \o Fence
    ELSE <<>>

process_tool_use_content(tool_name, tool_input) ==
    ToolUsedLabel \o <<" ">> \o PyStr(tool_name) \o ToolInputBlock(tool_input)

\* if processed_text: result.append(processed_text)
AppendIfTrue(text) == IF text # <<>> THEN <<text>> ELSE <<>>

FormatTyped(item, content_type) ==
    IF content_type = JStr(Chars("text"))
    THEN AppendIfTrue(process_text_content(Get(item, "text", JStr(<<>>))))
    ELSE IF content_type = JStr(Chars("tool_use"))
    THEN <<process_tool_use_content(Get(item, "name", JStr(Chars("unknown"))),
                                    Get(item, "input", JDict(<<>>)))>>
    ELSE IF content_type = JStr(Chars("tool_result"))
    THEN <<process_tool_result_content(Get(item, "content", JStr(<<>>)))>>
    ELSE <<>>

\* What one item of a content list appends to format_content's result list:
\* nothing, or one text.
FormatItem(item) ==
    IF item.k = "dict" THEN FormatTyped(item, Get(item, "type", JNull))
    ELSE <<PyStr(item)>>

format_content(content) ==
    IF content.k = "str" THEN clean_tool_output(content.s)
    ELSE IF content.k = "list"
    THEN Join(Join([i \in 1..Len(content.items) |-> FormatItem(content.items[i])], <<>>),
              Chars("\n\n"))
    ELSE PyStr(content)

----------------------------------------------------------------------------
(* format_timestamp and extract_project_name *)

DigitVal(c) == CHOOSE d \in 0..9 : DigitChar(d) = c

\* The number written by the two digits of s at i and i + 1
Num2(s, i) == 10 * DigitVal(s[i]) + DigitVal(s[i + 1])

\* timestamp.replace("Z", "+00:00")
ReplaceZ(s) ==
    Join([i \in 1..Len(s) |-> IF s[i] = "Z" THEN Chars("+00:00") ELSE <<s[i]>>], <<>>)

\* Whether datetime.fromisoformat reads s.  The timestamps of the model are
\* of the form YYYY-MM-DDTHH:MM:SS with an optional offset (+|-)HH:MM, or are
\* no ISO 8601 text at all; a month's length is not modelled.
IsIsoFormat(s) ==
    /\ Len(s) \in {19, 25}
    /\ \A i \in {1, 2, 3, 4, 6, 7, 9, 10, 12, 13, 15, 16, 18, 19} : s[i] \in Digits
    /\ s[5] = "-" /\ s[8] = "-" /\ s[11] = "T" /\ s[14] = ":" /\ s[17] = ":"
    /\ 100 * Num2(s, 1) + Num2(s, 3) >= 1
    /\ Num2(s, 6) \in 1..12
    /\ Num2(s, 9) \in 1..31
    /\ Num2(s, 12) <= 23 /\ Num2(s, 15) <= 59 /\ Num2(s, 18) <= 59
    /\ Len(s) = 25 =>
          /\ s[20] \in {"+", "-"}
          /\ \A i \in {21, 22, 24, 25} : s[i] \in Digits
          /\ s[23] = ":"
          /\ Num2(s, 21) <= 23 /\ Num2(s, 24) <= 59

\* dt.strftime("%Y-%m-%d %H:%M:%S UTC")
Strftime(iso) ==
    SubSeq(iso, 1, 10) \o <<" ">> \o SubSeq(iso, 12, 19) \o Chars(" UTC")

FormatIso(timestamp, iso) == IF IsIsoFormat(iso) THEN JStr(Strftime(iso)) ELSE timestamp

\* format_timestamp returns a JSON value: the formatted text, or, when
\* anything raised (the argument is no str, or no ISO text), its argument.
format_timestamp(timestamp) ==
    IF timestamp.k = "str" THEN FormatIso(timestamp, ReplaceZ(timestamp.s)) ELSE timestamp

\* Path(cwd) raises TypeError for what is no str.
extract_project_name_raises(cwd) == cwd.k # "str"

LastOf(comps) == IF comps = <<>> THEN <<>> ELSE comps[Len(comps)]

\* Path(cwd).name: the last component of the path, "" when it has none.
\* Only called with a cwd that is true, as the source does.
extract_project_name(cwd) ==
    LET Component(c) == c # <<>> /\ c # <<".">>
    IN  LastOf(SelectSeq(SplitChar(cwd.s, "/"), Component))

----------------------------------------------------------------------------
(* MESSAGE FILTERS *)

\* message_content.get raises AttributeError when "message" holds no dict.
should_skip_message_raises(msg) == Get(msg, "message", JDict(<<>>)).k # "dict"

should_skip_message(msg) ==
    Strip(format_content(Get(Get(msg, "message", JDict(<<>>)), "content", JStr(<<>>))))
    = <<>>

\* The timestamps extract_session_metadata keeps: those that are true.
TrueTimestamps(messages) ==
    LET IsTrue(v) == Truthy(v)
    IN  SelectSeq([i \in 1..Len(messages) |-> Get(messages[i], "timestamp", JNull)],
                  IsTrue)

\* start_time.split() raises AttributeError when format_timestamp returned no str.
SplitRaises(timestamps) ==
    /\ timestamps # <<>>
    /\ \/ format_timestamp(timestamps[1]).k # "str"
       \/ format_timestamp(timestamps[Len(timestamps)]).k # "str"

extract_session_metadata_raises(messages) == SplitRaises(TrueTimestamps(messages))

\* The literal that opens the time range.
ClockGlyph == <<"U+201A", "U+00E8", "U+221E">>

TimeRange(start_parts, end_parts) ==
    IF Len(start_parts) > 1 /\ Len(end_parts) > 1
    THEN <<ClockGlyph \o <<" ">> \o start_parts[2] \o Chars(" - ") \o end_parts[2]>>
    ELSE <<>>

MetadataOf(timestamps) ==
    IF timestamps = <<>> THEN <<>>
    ELSE TimeRange(Words(format_timestamp(timestamps[1]).s),
                   Words(format_timestamp(timestamps[Len(timestamps)]).s))

\* The metadata dict: <<>> when empty, else <<time_range>>.
extract_session_metadata(messages) == MetadataOf(TrueTimestamps(messages))

----------------------------------------------------------------------------
(* OUTPUT FORMATTERS *)

\* The characters of the session id shown in the header and the filename.
SessionIdPrefixLen == 8

\* session_id[:8] raises TypeError when the id is a number or a dict.
SessionIdPrefix_raises(session_id) == session_id.k \notin {"str", "list"}

\* f"{session_id[:8]}"
SessionIdPrefix(session_id) ==
    IF session_id.k = "str" THEN PySlice(session_id.s, 0, SessionIdPrefixLen)
    ELSE PyStr(JList(PySlice(session_id.items, 0, SessionIdPrefixLen)))

TitleGlyph == <<"U+F8FF", "U+00FC", "U+00ED", "U+00A8">>

FolderGlyph == <<"U+F8FF", "U+00FC", "U+00EC", "U+00C5">>

IdGlyph == <<"U+F8FF", "U+00FC", "U+00DC", "U+00EE">>

BulletGlyph == <<"U+201A", "U+00C4", "U+00A2">>

UserGlyph == <<"U+F8FF", "U+00FC", "U+00EB", "U+00A7">>

AssistantGlyph == <<"U+F8FF", "U+00FC", "U+00A7", "U+00F1">>

format_header_raises(session_id) == SessionIdPrefix_raises(session_id)

format_header(summary, project_name, session_id, metadata) ==
    Chars("# ") \o TitleGlyph \o <<" ">>
    \o (IF Truthy(summary) THEN PyStr(summary) ELSE Chars("Claude Code Session"))
    \o Chars("\n\n") \o Chars("<sub>")
    \o Join(<< FolderGlyph \o Chars(" **") \o project_name \o Chars("**"),
               IdGlyph \o <<" ", Backtick>> \o SessionIdPrefix(session_id)
                   \o Chars("...") \o <<Backtick>> >> \o metadata,
            <<" ">> \o BulletGlyph \o <<" ">>)
    \o Chars("</sub>\n\n")

\* time_parts[1] if len(time_parts) > 1 else formatted_time
ClockOf(formatted_time, time_parts) ==
    IF Len(time_parts) > 1 THEN time_parts[2] ELSE formatted_time

DisplayOf(formatted_time) == ClockOf(formatted_time, Words(formatted_time))

TimeDisplay(timestamp) == DisplayOf(format_timestamp(timestamp).s)

\* In a turn formatter: message_content.get raises when "message" holds no dict,
\* formatted_time.split() when the timestamp is no str.
format_message_raises(msg) ==
    \/ Get(msg, "message", JDict(<<>>)).k # "dict"
    \/ format_timestamp(Get(msg, "timestamp", JStr(<<>>))).k # "str"

FormattedContent(msg) ==
    format_content(Get(Get(msg, "message", JDict(<<>>)), "content", JStr(<<>>)))

format_user_message(msg) ==
    Chars("### ") \o UserGlyph \o Chars(" <sub> ")
    \o TimeDisplay(Get(msg, "timestamp", JStr(<<>>))) \o Chars("</sub>\n\n")
    \o Chars("> **") \o FormattedContent(msg) \o Chars("**\n\n")

\* The offset of the result's text after the start of the Tool Result label.
ResultLabelSkip == 16

\* The offset after a JSON fence's start from which its closing fence is sought.
JsonFenceSkip == 7

\* The characters of a closing fence, kept with the JSON block.
FenceLen == 3

\* tool_part[json_start : json_end + 3], when both fences are found
JsonBlockTo(tool_part, json_start, json_end) ==
    IF json_end # -1
    THEN PySlice(tool_part, json_start, json_end + FenceLen) \o Chars("\n\n")
    ELSE <<>>

JsonBlock(tool_part, json_start) ==
    IF json_start # -1
    THEN JsonBlockTo(tool_part, json_start,
                     Find(tool_part, Fence, json_start + JsonFenceSkip))
    ELSE <<>>

\* if result_content.startswith("\n```"): the result is cleaned and appended
ResultSection(result_content) ==
    IF StartsWith(result_content, <<"\n">> \o Fence)
    THEN Chars("**Result:**\n") \o clean_tool_output(result_content) \o Chars("\n\n")
    ELSE <<>>

ResultBlock(tool_part, result_start) ==
    IF result_start # -1
    THEN ResultSection(Strip(PyFrom(tool_part, result_start + ResultLabelSkip)))
    ELSE <<>>

\* What format_tool_heavy_response appends for one tool part.
FormatToolPart(tool_part) ==
    Chars("<details>\n<summary><sub>") \o Wrench \o Chars(" <em>")
    \o Strip(SplitChar(tool_part, "\n")[1])
    \o Chars("</em></sub></summary>\n\n")
    \o JsonBlock(tool_part, Find(tool_part, JsonFence, 0))
    \o ResultBlock(tool_part, Find(tool_part, ToolResultLabel, 0))
    \o Chars("</details>\n\n")

\* if parts[0].strip(): markdown += f"{parts[0].strip()}\n\n"
LeadText(stripped) == IF stripped # <<>> THEN stripped \o Chars("\n\n") ELSE <<>>

ToolHeavy(formatted_content, parts) ==
    IF Len(parts) > 1
    THEN LeadText(Strip(parts[1]))
         \o Join([i \in 1..(Len(parts) - 1) |-> FormatToolPart(parts[i + 1])], <<>>)
    ELSE formatted_content \o Chars("\n\n")

format_tool_heavy_response(formatted_content) ==
    ToolHeavy(formatted_content, Split(formatted_content, ToolUsedLabel))

AssistantBody(formatted_content) ==
    IF Contains(formatted_content, Chars("Tool Used:"))
    THEN format_tool_heavy_response(formatted_content)
    ELSE formatted_content \o Chars("\n\n")

format_assistant_message(msg) ==
    Chars("### ") \o AssistantGlyph \o Chars(" <sub> ")
    \o TimeDisplay(Get(msg, "timestamp", JStr(<<>>))) \o Chars("</sub>\n\n")
    \o AssistantBody(FormattedContent(msg))

\* msg.get("type", "unknown")
MsgType(msg) == Get(msg, "type", JStr(Chars("unknown")))

IsTurn(msg) == MsgType(msg) \in {JStr(Chars("user")), JStr(Chars("assistant"))}

FragmentOf(msg, msg_type) ==
    IF msg_type = JStr(Chars("user")) THEN format_user_message(msg)
    ELSE IF msg_type = JStr(Chars("assistant")) THEN format_assistant_message(msg)
    ELSE <<>>

\* The fragment generate_markdown appends for a message it does not skip:
\* a user turn, an assistant turn, or nothing for any other type.
Fragment(msg) == FragmentOf(msg, MsgType(msg))

Separator == Chars("---\n\n")

\* What one pass of generate_markdown's loop appends, for message i (from 1).
LoopAppend(messages, i) ==
    IF should_skip_message(messages[i]) THEN <<>>
    ELSE Fragment(messages[i]) \o (IF i - 1 < Len(messages) - 1 THEN Separator ELSE <<>>)

generate_markdown_raises(messages, summary, project_name, session_id) ==
    \/ extract_session_metadata_raises(messages)
    \/ format_header_raises(session_id)
    \/ \E i \in 1..Len(messages) :
          \/ should_skip_message_raises(messages[i])
          \/ /\ ~should_skip_message(messages[i])
             /\ IsTurn(messages[i])
             /\ format_message_raises(messages[i])

generate_markdown(messages, summary, project_name, session_id) ==
    format_header(summary, project_name, session_id, extract_session_metadata(messages))
    \o Join([i \in 1..Len(messages) |-> LoopAppend(messages, i)], <<>>)

----------------------------------------------------------------------------
(* MAIN PIPELINE: process_jsonl_file *)

\* A session file: whether open() and readlines() succeed, and its lines.  A
\* line is text json.loads rejects (bad), or the value json.loads returns.
SessionFile(lines) == [readable |-> TRUE, lines |-> lines]

UnreadableFile == [readable |-> FALSE, lines |-> <<>>]

BadLine == [bad |-> TRUE, entry |-> JNull]

Line(entry) == [bad |-> FALSE, entry |-> entry]

\* The locals of process_jsonl_file before its loop over the lines; raised
\* says that an exception left the loop.
LoopStart ==
    [raised |-> FALSE, messages |-> <<>>, summary |-> JStr(<<>>),
     project_name |-> Chars("unknown"), session_id |-> JStr(<<>>)]

\* The summary the loop holds after a summary entry.
SummaryAfter(old, entry) == Get(entry, "summary", JStr(<<>>))

\* One pass of the loop over the lines.  entry.get raises AttributeError for
\* an entry that is no dict, which only the function's outer handler catches.
LoopStep(st, line) ==
    IF st.raised \/ line.bad THEN st
    ELSE LET entry == line.entry
             cwd == Get(entry, "cwd", JNull)
             sessionId == Get(entry, "sessionId", JNull)
         IN  IF entry.k # "dict" THEN [st EXCEPT !.raised = TRUE]
             ELSE IF Get(entry, "type", JNull) = JStr(Chars("summary"))
             THEN [st EXCEPT !.summary = SummaryAfter(st.summary, entry)]
             ELSE IF Truthy(cwd) /\ extract_project_name_raises(cwd)
             THEN [st EXCEPT !.raised = TRUE]
             ELSE [st EXCEPT
                     !.project_name = IF Truthy(cwd) THEN extract_project_name(cwd) ELSE @,
                     !.session_id = IF Truthy(sessionId) THEN sessionId ELSE @,
                     !.messages = Append(@, entry)]

RECURSIVE LineLoop(_, _, _)
LineLoop(lines, i, st) ==
    IF i > Len(lines) THEN st ELSE LineLoop(lines, i + 1, LoopStep(st, lines[i]))

\* The filename of a session without a summary.
UnnamedFilename(project_name, session_id) ==
    project_name \o <<"_">> \o SessionIdPrefix(session_id)

\* The filename process_jsonl_file computes, without the ".md".
OutputFilename(summary, project_name, session_id) ==
    IF Truthy(summary)
    THEN sanitize_filename(project_name \o <<"_">> \o PyStr(summary))
    ELSE UnnamedFilename(project_name, session_id)

\* output_file.exists(), in an output folder that holds files only
Exists(dir, name) == \E f \in dir : f.name = name

\* open(output_file, "w") raises FileNotFoundError for a name with a "/": the
\* output folder holds no folder.
open_raises(name) == \E i \in 1..Len(name) : name[i] = "/"

\* f.write(markdown_content) raises UnicodeEncodeError for a text with a lone
\* surrogate, which json.loads accepts: open() has made the file empty by then.
Surrogates == {"U+D800"}

write_raises(markdown_content) ==
    \E i \in 1..Len(markdown_content) : markdown_content[i] \in Surrogates

\* What process_jsonl_file returns: ret is "None", "skipped" or "path" (the
\* path of the file it wrote); error is "" or the stage at which the outer
\* handler caught an exception ("read", "loop", "name", "render", "open",
\* "write"); output_file and markdown_content are the file's name and text
\* where they were computed.
Returned(ret, error, output_file, markdown_content) ==
    [ret |-> ret, error |-> error, output_file |-> output_file,
     markdown_content |-> markdown_content]

\* A conversion that never tests whether its output file exists.
SkipsNever(dir, output_file) == FALSE

\* Whether process_jsonl_file writes a file whose name the folder holds.
SkipsExisting(dir, output_file) == Exists(dir, output_file)

\* The end of process_jsonl_file: the write, of a text that was rendered.
WriteFile(output_file, markdown_content) ==
    IF open_raises(output_file)
    THEN Returned("None", "open", output_file, markdown_content)
    ELSE IF write_raises(markdown_content)
    THEN Returned("None", "write", output_file, markdown_content)
    ELSE Returned("path", "", output_file, markdown_content)

\* process_jsonl_file from its test of the output file on.
ConvertTo(dir, st, output_file) ==
    IF SkipsExisting(dir, output_file)
    THEN Returned("skipped", "", output_file, <<>>)
    ELSE IF generate_markdown_raises(st.messages, st.summary, st.project_name,
                                     st.session_id)
    THEN Returned("None", "render", output_file, <<>>)
    ELSE WriteFile(output_file,
                   generate_markdown(st.messages, st.summary, st.project_name,
                                     st.session_id))

\* A conversion without the test "if not messages: return None".
AfterLoopUnchecked(dir, st) ==
    IF st.raised THEN Returned("None", "loop", <<>>, <<>>)
    ELSE IF ~Truthy(st.summary) /\ SessionIdPrefix_raises(st.session_id)
    THEN Returned("None", "name", <<>>, <<>>)
    ELSE ConvertTo(dir, st,
                   OutputFilename(st.summary, st.project_name, st.session_id)
                   \o Chars(".md"))

\* process_jsonl_file after its loop over the lines, which ended in st.
AfterLoop(dir, st) ==
    IF st.raised THEN Returned("None", "loop", <<>>, <<>>)
    ELSE IF st.messages = <<>> THEN Returned("None", "", <<>>, <<>>)
    ELSE IF ~Truthy(st.summary) /\ SessionIdPrefix_raises(st.session_id)
    THEN Returned("None", "name", <<>>, <<>>)
    ELSE ConvertTo(dir, st,
                   OutputFilename(st.summary, st.project_name, st.session_id)
                   \o Chars(".md"))

process_jsonl_file(jsonl, dir) ==
    IF ~jsonl.readable THEN Returned("None", "read", <<>>, <<>>)
    ELSE IF jsonl.lines = <<>> THEN Returned("None", "", <<>>, <<>>)
    ELSE AfterLoop(dir, LineLoop(jsonl.lines, 1, LoopStart))

----------------------------------------------------------------------------
(* main: the batch, and the program run again over the same inputs *)

\* main up to its loop: the folder exists, the files are found; with no file
\* it returns at once.
StartRun ==
    /\ pc = "start"
    /\ processed_count' = 0
    /\ skipped_count' = 0
    /\ idx' = 1
    /\ results' = <<>>
    /\ pc' = IF files = <<>> THEN "done" ELSE "loop"
    /\ UNCHANGED <<files, output_dir, run, writes, history>>
    /\ UNCHANGED harness_vars

\* Whether the call opened its output file for writing: open(output_file, "w")
\* makes the file, or empties the one there is.
Opened(result) == result.ret = "path" \/ result.error = "write"

\* What the opened file holds when the call returns.
Written(result) == IF result.ret = "path" THEN result.markdown_content ELSE <<>>

\* The folder dir after name was opened for writing and content written.
WriteTo(dir, name, content) ==
    {f \in dir : f.name # name} \cup {[name |-> name, content |-> content]}

\* The frame of the tallies below: the file the call left, and its result.
Leaves(result) ==
    /\ output_dir' =
          IF Opened(result)
          THEN WriteTo(output_dir, result.output_file, Written(result))
          ELSE output_dir
    /\ writes' =
          IF Opened(result)
          THEN Append(writes, [name |-> result.output_file,
                               content |-> Written(result),
                               run |-> run, file |-> idx])
          ELSE writes
    /\ results' = Append(results, result)

\* A tally without the test for "skipped": every true result counts as
\* processed.
TallyTruthy(result) ==
    /\ Leaves(result)
    /\ skipped_count' = skipped_count
    /\ processed_count' = IF result.ret # "None" THEN processed_count + 1
                          ELSE processed_count

\* A tally that counts every result but "skipped" as processed, None too.
TallyCountsFailed(result) ==
    /\ Leaves(result)
    /\ skipped_count' = IF result.ret = "skipped" THEN skipped_count + 1
                        ELSE skipped_count
    /\ processed_count' = IF result.ret # "skipped" THEN processed_count + 1
                          ELSE processed_count

\* main's use of what process_jsonl_file returned, with the file the call
\* left; writes is the log of the files opened for writing.
Tally(result) ==
    /\ Leaves(result)
    /\ skipped_count' = IF result.ret = "skipped" THEN skipped_count + 1
                        ELSE skipped_count
    /\ processed_count' = IF result.ret = "path" THEN processed_count + 1
                          ELSE processed_count

\* One pass of main's loop: process_jsonl_file on the next file, its write,
\* and the count it adds to.
ProcessFile ==
    /\ pc = "loop"
    /\ idx <= Len(files)
    /\ Tally(process_jsonl_file(files[idx], output_dir))
    /\ idx' = idx + 1
    /\ UNCHANGED <<files, run, pc, history>>
    /\ UNCHANGED harness_vars

\* main after its loop: the counts are reported.
FinishRun ==
    /\ pc = "loop"
    /\ idx > Len(files)
    /\ pc' = "done"
    /\ history' = Append(history, [processed |-> processed_count,
                                   skipped |-> skipped_count,
                                   total |-> Len(files),
                                   results |-> results])
    /\ UNCHANGED <<files, output_dir, run, idx, processed_count, skipped_count,
                   results, writes>>
    /\ UNCHANGED harness_vars

\* The program is run again, with the same session files and output folder.
RunAgain ==
    /\ pc = "done"
    /\ run < MaxRuns
    /\ run' = run + 1
    /\ pc' = "start"
    /\ UNCHANGED <<files, output_dir, idx, processed_count, skipped_count,
                   results, writes, history>>
    /\ UNCHANGED harness_vars

Next == StartRun \/ ProcessFile \/ FinishRun \/ RunAgain

\* The call of process_tool_result_content on the harness's argument.
RenderToolResult ==
    /\ tpc = "call"
    /\ rendered' = process_tool_result_content(tool_result)
    /\ tpc' = "returned"
    /\ UNCHANGED tool_result
    /\ UNCHANGED batch_vars

NextRender == RenderToolResult

----------------------------------------------------------------------------
(* The inputs *)

Str(s) == JStr(Chars(s))

Obj(type, fields) == JDict(<<Member("type", Str(type))>> \o fields)

Message(content) == Member("message", JDict(<<Member("content", content)>>))

IsoTime == Str("2024-01-01T10:00:00Z")

\* {"type": "summary", "summary": ...}
SummaryLine(summary) == Line(Obj("summary", <<Member("summary", Str(summary))>>))

\* A user turn with every optional field.
UserFull ==
    Line(Obj("user", <<Member("cwd", Str("/w/p")), Member("sessionId", Str("0123456789")),
                       Member("timestamp", IsoTime), Message(Str("hi"))>>))

\* A user turn whose content is blank: generate_markdown skips it.
UserBlank == Line(Obj("user", <<Message(Str(""))>>))

\* An entry of a type that is no turn, with content that is not blank.
SystemNote == Line(Obj("system", <<Message(Str("zz"))>>))

\* An assistant turn of a text, a tool use and the tool's result.
AssistantTool ==
    Line(Obj("assistant",
        <<Member("timestamp", IsoTime),
          Message(JList(<<
              JDict(<<Member("type", Str("text")), Member("text", Str("ok"))>>),
              JDict(<<Member("type", Str("tool_use")), Member("name", Str("Bash")),
                      Member("input", JDict(<<Member("command", Str("ls"))>>))>>),
              JDict(<<Member("type", Str("tool_result")),
                      Member("content", Str("out"))>>)>>))>>))

\* Optional fields that are null or of another type than expected.
UserNullTimestamp == Line(Obj("user", <<Member("timestamp", JNull), Message(Str("yo"))>>))

UserNullMessage == Line(Obj("user", <<Member("message", JNull)>>))

UserNumberCwd == Line(Obj("user", <<Member("cwd", JNum(5)), Message(Str("yo"))>>))

UserNullContent == Line(Obj("user", <<Member("cwd", JNull), Message(JNull)>>))

\* A user turn whose project name and session id hold unsafe characters.
UserUnsafe ==
    Line(Obj("user", <<Member("cwd", Str("/w/a:b")), Member("sessionId", Str("x?y")),
                       Message(Str("yo"))>>))

\* A user turn whose session id holds a "/".
UserSlash == Line(Obj("user", <<Member("sessionId", Str("a/b")), Message(Str("yo"))>>))

\* A user turn whose content holds a lone surrogate ("\ud800" in the JSON).
UserSurrogate ==
    Line(Obj("user", <<Member("cwd", Str("/w/p")), Member("sessionId", Str("0123456789")),
                       Message(JStr(<<"a", "U+D800">>))>>))

\* A line that is JSON but no object.
NumberLine == Line(JNum(5))

LineKinds ==
    {BadLine, NumberLine, SummaryLine("A?"), SummaryLine("B"), UserFull, UserBlank,
     SystemNote, AssistantTool, UserNullTimestamp, UserNullMessage, UserNumberCwd,
     UserNullContent, UserUnsafe}

SeqsUpTo(S, n) == UNION {[1..m -> S] : m \in 0..n}

\* Every session file of at most MaxLines lines, and one that cannot be read.
AllFiles == {SessionFile(ls) : ls \in SeqsUpTo(LineKinds, MaxLines)} \cup {UnreadableFile}

\* The session files of the batches: two sessions of one computed name and
\* different text, one of them with two summaries; one with no summary; one
\* with no record; one whose rendering raises, one whose output file cannot
\* be opened and one whose text cannot be written; one that cannot be read
\* and one that is empty.
BatchFiles ==
    {SessionFile(<<SummaryLine("B"), UserFull>>),
     SessionFile(<<SummaryLine("A?"), SummaryLine("B"), UserFull, SystemNote>>),
     SessionFile(<<UserFull>>),
     SessionFile(<<SummaryLine("B"), BadLine>>),
     SessionFile(<<UserFull, UserNullMessage>>),
     SessionFile(<<UserSlash>>),
     SessionFile(<<UserSurrogate>>),
     UnreadableFile,
     SessionFile(<<>>)}

\* What the output folder may hold before the first run.
OldFiles ==
    {[name |-> Chars("p_B.md"), content |-> Chars("old")],
     [name |-> Chars("unknown_.md"), content |-> Chars("old")]}

InitBatchVars(fs) ==
    /\ files = fs
    /\ output_dir \in SUBSET OldFiles
    /\ run = 1
    /\ pc = "start"
    /\ idx = 1
    /\ processed_count = 0
    /\ skipped_count = 0
    /\ results = <<>>
    /\ writes = <<>>
    /\ history = <<>>

HarnessIdle ==
    /\ tool_result = JNull
    /\ rendered = <<>>
    /\ tpc = "idle"

\* Batches of at most MaxFiles of the batch files.
Init ==
    /\ \E fs \in SeqsUpTo(BatchFiles, MaxFiles) : InitBatchVars(fs)
    /\ HarnessIdle

Spec == Init /\ [][Next]_vars

\* A batch of one session file, any of AllFiles.
InitFile ==
    /\ \E f \in AllFiles : InitBatchVars(<<f>>)
    /\ HarnessIdle

SpecFile == InitFile /\ [][Next]_vars

\* The filler of a payload: n characters, in turn x, y, z.
Filler(n) == [i \in 1..n |-> <<"x", "y", "z">>[(i % 3) + 1]]

PayloadLengths == (0..Slack) \cup ((TruncLimit - Slack)..(TruncLimit + Slack))

PayloadPrefixes ==
    {<<>>, <<"\t">>, <<ESC>> \o Chars("[31m"), Chars("[0m"),
     Chars("  12") \o Arrow, Chars("ab\n")}

PayloadSuffixes == {<<>>, <<"\n">>, <<ESC>> \o Chars("[0m"), TruncMarker}

Payloads ==
    {pre \o Filler(n) \o suf :
        pre \in PayloadPrefixes, n \in PayloadLengths, suf \in PayloadSuffixes}

\* The harness: one call of process_tool_result_content on a string payload.
InitRender ==
    /\ tool_result \in {JStr(p) : p \in Payloads}
    /\ rendered = <<>>
    /\ tpc = "call"
    /\ files = <<>>
    /\ output_dir = {}
    /\ run = 1
    /\ pc = "idle"
    /\ idx = 1
    /\ processed_count = 0
    /\ skipped_count = 0
    /\ results = <<>>
    /\ writes = <<>>
    /\ history = <<>>

SpecRender == InitRender /\ [][NextRender]_vars

----------------------------------------------------------------------------
(* THE CLAIMS *)

Range(s) == {s[i] : i \in DOMAIN s}

\* The session process_jsonl_file draws from the lines of a file it can read.
SessionOf(jsonl) == LineLoop(jsonl.lines, 1, LoopStart)

IsSummaryLine(line) ==
    /\ ~line.bad
    /\ line.entry.k = "dict"
    /\ Get(line.entry, "type", JNull) = Str("summary")

\* A file whose lines yield no record: each is unparsable or a summary.
ZeroRecords(jsonl) ==
    /\ jsonl.readable
    /\ \A i \in DOMAIN jsonl.lines : jsonl.lines[i].bad \/ IsSummaryLine(jsonl.lines[i])

\* A step of main's loop: one more result.
Processes == Len(results') = Len(results) + 1

---- (* C1 *)

\* C1 as stated: after a complete run, a run over the same session files and
\* the same output folder processes no file and counts every discovered file
\* as skipped.
C1_SecondRunSkipsEveryFile ==
    \A r \in 2..Len(history) :
        /\ history[r].processed = 0
        /\ history[r].skipped = history[r].total

\* C1, amended: after a complete run, a run over the same session files and
\* the same output folder opens no output file and processes no file; it
\* counts a file as skipped exactly when the file computes a filename that
\* the folder holds, as does every file the run before processed or skipped;
\* a file that computed no filename in the run before counts as neither
\* again; from the third run on every file fares as in the run before.
C1_SecondRunProcessesNothing ==
    /\ \A k \in DOMAIN writes : writes[k].run = 1
    /\ \A r \in 2..Len(history) :
          /\ history[r].total = history[r - 1].total
          /\ history[r].processed = 0
          /\ \A i \in 1..history[r].total :
                /\ history[r].results[i].ret = "skipped"
                      <=> /\ history[r].results[i].output_file # <<>>
                          /\ \E f \in output_dir :
                                f.name = history[r].results[i].output_file
                /\ history[r - 1].results[i].ret \in {"path", "skipped"}
                      => history[r].results[i].ret = "skipped"
                /\ history[r - 1].results[i].output_file = <<>>
                      => history[r].results[i].ret = "None"
          /\ history[r].skipped =
                Cardinality({i \in 1..history[r].total :
                                history[r].results[i].ret = "skipped"})
          /\ r > 2 => history[r].results = history[r - 1].results

\* A second run that skipped a file the first had processed, and counted
\* another file as neither.
C1_Witness ==
    /\ Len(history) >= 2
    /\ history[1].processed >= 1
    /\ history[2].processed = 0
    /\ history[2].skipped >= 1
    /\ history[2].skipped < history[2].total

---- (* C2 *)

\* C2: whenever process_jsonl_file computes a name the output folder holds,
\* it returns "skipped" and opens no file, and no file of the folder changes;
\* over the files and the runs no name is opened for writing twice.
C2_SkipNeverOverwrites ==
    /\ [](\A i, j \in DOMAIN writes : writes[i].name = writes[j].name => i = j)
    /\ [][\A f \in output_dir :
             /\ f \in output_dir'
             /\ (Processes /\ results'[Len(results')].output_file = f.name)
                   => /\ results'[Len(results')].ret = "skipped"
                      /\ writes' = writes
                      /\ skipped_count' = skipped_count + 1
                      /\ processed_count' = processed_count]_vars

\* In the first run, a session was skipped for the file a session before it
\* had written in that run.
C2_Witness ==
    /\ run = 1
    /\ \E i \in DOMAIN results :
          /\ results[i].ret = "skipped"
          /\ \E k \in DOMAIN writes :
                /\ writes[k].name = results[i].output_file
                /\ writes[k].file < i
                /\ writes[k].content # <<>>

---- (* C3 *)

\* C3: a batch of files that yield no record (empty, or of summary lines and
\* unparsable lines only) makes no output file, and counts its files neither
\* as processed nor as skipped.
C3_NoRecordsNoDocument ==
    (\A i \in DOMAIN files : ZeroRecords(files[i]))
        => /\ writes = <<>>
           /\ output_dir \subseteq OldFiles
           /\ processed_count = 0
           /\ skipped_count = 0
           /\ \A i \in DOMAIN results : results[i].ret = "None"
           /\ \A r \in DOMAIN history :
                 history[r].processed = 0 /\ history[r].skipped = 0

\* A run has ended over a file of a summary line and an unparsable line.
C3_Witness ==
    /\ Len(history) >= 1
    /\ Len(files) = 1
    /\ ZeroRecords(files[1])
    /\ \E i, j \in DOMAIN files[1].lines :
          files[1].lines[i].bad /\ IsSummaryLine(files[1].lines[j])

---- (* C4 *)

\* The fragments generate_markdown emits: those of the turns it does not skip.
EmittedFragments(messages) ==
    LET Emits(i) == ~should_skip_message(messages[i]) /\ IsTurn(messages[i])
        emitted == SelectSeq([i \in 1..Len(messages) |-> i], Emits)
    IN  [k \in 1..Len(emitted) |-> Fragment(messages[emitted[k]])]

\* The header, then the emitted fragments with one separator between each two.
SeparatedDocument(st) ==
    format_header(st.summary, st.project_name, st.session_id,
                  extract_session_metadata(st.messages))
    \o Join(EmittedFragments(st.messages), Separator)

\* C4 as stated: every document written is its header followed by the emitted
\* fragments, with one separator between each two consecutive fragments, none
\* after the last, and none elsewhere.
C4_SeparatorsBetweenFragments ==
    \A i \in DOMAIN results :
        results[i].ret = "path"
            => results[i].markdown_content = SeparatedDocument(SessionOf(files[i]))

---- (* C5 *)

\* C5 as stated: no output filename process_jsonl_file computes holds one of
\* the characters < > : " / \ | ? *
C5_FilenameHasNoUnsafeChar ==
    \A i \in DOMAIN results :
        \A j \in DOMAIN results[i].output_file :
            results[i].output_file[j] \notin {"<", ">", ":", "\"", "/", "\\", "|", "?", "*"}

---- (* C6 *)

\* The files of fs, in order, but those whose result in rs is a failure before
\* the write.
BeforeWrite == {"read", "loop", "name", "render", "open"}

Others(fs, rs) ==
    LET Kept(i) == rs[i].error \notin BeforeWrite
        kept == SelectSeq([i \in 1..Len(fs) |-> i], Kept)
    IN  [k \in 1..Len(kept) |-> fs[kept[k]]]

OtherResults(rs) ==
    LET Kept(r) == r.error \notin BeforeWrite
    IN  SelectSeq(rs, Kept)

\* The results of a run over fs from the folder dir.
RECURSIVE Outcomes(_, _, _)
Outcomes(fs, i, dir) ==
    IF i > Len(fs) THEN <<>>
    ELSE LET result == process_jsonl_file(fs[i], dir)
         IN  <<result>>
             \o Outcomes(fs, i + 1,
                         IF Opened(result)
                         THEN WriteTo(dir, result.output_file, Written(result))
                         ELSE dir)

\* The folder before the first run: what it holds that no run has written.
FolderAtStart == {f \in output_dir : \A k \in DOMAIN writes : writes[k].name # f.name}

\* C6: a file whose processing raises while it is read, converted or rendered
\* (or its output file opened) adds to neither count and leaves the output
\* folder as it was, and the loop goes on with the next file; every run ends
\* with a result for every file, and the results of the other files of the
\* first run are those of a run over them alone.
C6_FailureIsolation ==
    /\ [][(Processes /\ results'[Len(results')].error \in BeforeWrite)
             => /\ results'[Len(results')].ret = "None"
                /\ processed_count' = processed_count
                /\ skipped_count' = skipped_count
                /\ output_dir' = output_dir
                /\ writes' = writes
                /\ idx' = idx + 1
                /\ pc' = "loop"]_vars
    /\ [](\A r \in DOMAIN history :
             /\ Len(history[r].results) = history[r].total
             /\ history[r].processed + history[r].skipped =
                   Cardinality({i \in 1..history[r].total :
                                   history[r].results[i].error = ""
                                   /\ history[r].results[i].ret # "None"}))
    /\ []((Len(history) = 1 /\ pc = "done")
             => OtherResults(history[1].results)
                = Outcomes(Others(files, history[1].results), 1, FolderAtStart))

\* A file whose rendering raised, and a file after it that the run processed.
C6_Witness ==
    \E i, j \in DOMAIN results :
        /\ i < j
        /\ results[i].error = "render"
        /\ results[j].ret = "path"
        /\ processed_count = 1

---- (* C7 *)

\* A file of objects and unparsable lines only, with a record among them.
RecordsOnly(jsonl) ==
    /\ jsonl.readable
    /\ \A i \in DOMAIN jsonl.lines :
          jsonl.lines[i].bad \/ jsonl.lines[i].entry.k = "dict"
    /\ ~ZeroRecords(jsonl)

\* C7 as stated: whatever optional fields (timestamp, cwd, message, content)
\* of its records are missing, null or of another type, processing a file
\* does not fail, and the session has a document.
C7_OptionalFieldsDegrade ==
    \A i \in DOMAIN results :
        RecordsOnly(files[i])
            => results[i].error = "" /\ results[i].ret \in {"path", "skipped"}

---- (* C8 *)

RECURSIVE FirstSummary(_, _)
FirstSummary(lines, i) ==
    IF i > Len(lines) THEN JStr(<<>>)
    ELSE IF IsSummaryLine(lines[i]) THEN Get(lines[i].entry, "summary", JStr(<<>>))
    ELSE FirstSummary(lines, i + 1)

\* C8 as stated: the output filename and the document of a file are those of
\* its first summary record, whatever summary records follow.
C8_FirstSummaryWins ==
    \A i \in DOMAIN results :
        results[i].ret = "path"
            => LET st == SessionOf(files[i])
                   first == FirstSummary(files[i].lines, 1)
               IN  /\ results[i].output_file =
                         OutputFilename(first, st.project_name, st.session_id)
                         \o Chars(".md")
                   /\ results[i].markdown_content =
                         generate_markdown(st.messages, first, st.project_name,
                                           st.session_id)

---- (* C9 *)

ResultOpening == ToolResultLabel \o <<"\n">> \o Fence \o <<"\n">>

ResultClosing == <<"\n">> \o Fence

\* Whether block is the fenced block of body under the Tool Result label.
IsResultBlock(block, body) == block = ResultOpening \o body \o ResultClosing

\* C9 as stated: the body of the block of a string payload longer than 2000
\* characters is the payload's first 2000 characters and the marker; a payload
\* of at most 2000 characters is rendered, cleaned, without the marker.
C9_TruncatesOriginalPayload ==
    tpc = "returned"
        => IsResultBlock(rendered,
                         IF Len(tool_result.s) > 2000
                         THEN SubSeq(tool_result.s, 1, 2000) \o Chars("\n... (truncated)")
                         ELSE clean_tool_output(tool_result.s))

\* C9, amended: the body of the block of a string payload is the cleaned
\* payload when that is of at most 2000 characters, and else the cleaned
\* payload's first 2000 characters followed by the marker.
C9_TruncatesCleanedPayload ==
    tpc = "returned"
        => IsResultBlock(rendered,
                         IF Len(clean_tool_output(tool_result.s)) > 2000
                         THEN SubSeq(clean_tool_output(tool_result.s), 1, 2000)
                              \o Chars("\n... (truncated)")
                         ELSE clean_tool_output(tool_result.s))

\* The block of a payload that cleaning changed and left longer than 2000
\* characters.
C9_Witness ==
    /\ tpc = "returned"
    /\ clean_tool_output(tool_result.s) # tool_result.s
    /\ Len(clean_tool_output(tool_result.s)) > 2000
    /\ Len(rendered) = Len(ResultOpening) + 2000 + Len(TruncMarker) + Len(ResultClosing)

---- (* C10 *)

\* An assistant record whose content has a tool segment with the Tool Result
\* label and a fenced block right after it.
HasToolResultSegment(msg) ==
    /\ MsgType(msg) = Str("assistant")
    /\ \E p \in 2..Len(Split(FormattedContent(msg), ToolUsedLabel)) :
          Contains(Split(FormattedContent(msg), ToolUsedLabel)[p],
                   ToolResultLabel \o <<"\n">> \o Fence)

\* C10 as stated: the document of a session with such a record has, in the
\* record's collapsible block, a "**Result:**" section.
C10_ResultInCollapsibleBlock ==
    \A i \in DOMAIN results :
        (/\ results[i].ret = "path"
         /\ \E m \in Range(SessionOf(files[i]).messages) : HasToolResultSegment(m))
            => Contains(results[i].markdown_content, Chars("**Result:**"))

=============================================================================
